---- MODULE Spec2Model ----
(***************************************************************************)
(* A model of the command-line engine of src/src/mod.ts: create().run,     *)
(* runCommand, parseArgs, logHelp, createTable, invalidCommandString and   *)
(* abort.  A token (one element of the argument vector) is a sequence of   *)
(* one-character strings, so that startsWith, includes, indexOf, substring *)
(* and split act on it as they do in the source.  Texts written to the     *)
(* console are TLA+ strings.                                               *)
(***************************************************************************)
EXTENDS Integers, Sequences, FiniteSets, TLC

VARIABLES
    tokens,      \* the argument vector given to run()
    pc,          \* the position of the run: "run", "runCommand", "dangerous", "parseArgs", "done"
    isHelp,      \* run(): the help-mode flag
    commandMap,  \* runCommand(): the child map of the current level
    args,        \* runCommand(): the tokens not yet consumed
    path,        \* runCommand(): the path segments consumed so far
    command,     \* runCommand(): the node found at the current level
    lookups,     \* the number of child-map lookups made
    out,         \* the calls to the collaborators, in order
    runArgs,     \* the positional arguments the handler was called with
    runFlags     \* the flag mapping the handler was called with

vars == <<tokens, pc, isHelp, commandMap, args, path, command, lookups, out, runArgs, runFlags>>

(***************************************************************************)
(* Bounds of the model.                                                    *)
(***************************************************************************)
\* The most tokens that follow a scenario's leading tokens.
MaxRest == 3

(***************************************************************************)
(* String primitives of the host language, on sequences of characters.     *)
(***************************************************************************)
startsWith(s, p) == Len(s) >= Len(p) /\ SubSeq(s, 1, Len(p)) = p

includes(s, c) == \E i \in 1..Len(s) : s[i] = c

\* The zero-based index of the first c in s, or -1.
indexOf(s, c) ==
    IF includes(s, c)
    THEN (CHOOSE i \in 1..Len(s) : s[i] = c /\ \A j \in 1..(i - 1) : s[j] # c) - 1
    ELSE -1

\* s.substring(from) and s.substring(from, to), zero-based.
substringFrom(s, from) == SubSeq(s, from + 1, Len(s))

substring(s, from, to) == SubSeq(s, from + 1, to)

\* The text of a token.
RECURSIVE Str(_)
Str(s) == IF s = <<>> THEN "" ELSE Head(s) \o Str(Tail(s))

\* list.join(sep) on a sequence of texts.
RECURSIVE join(_, _)
join(list, sep) ==
    IF list = <<>> THEN ""
    ELSE IF Len(list) = 1 THEN list[1]
    ELSE list[1] \o sep \o join(Tail(list), sep)

\* list.map(Str)
StrEach(list) == [i \in 1..Len(list) |-> Str(list[i])]

RECURSIVE Spaces(_)
Spaces(n) == IF n <= 0 THEN "" ELSE " " \o Spaces(n - 1)

padEnd(s, n) == s \o Spaces(n - Len(s))

Max(a, b) == IF a >= b THEN a ELSE b

\* array.filter(keep) where keep is a predicate on one element.
RECURSIVE FilterNoDash(_)
FilterNoDash(list) ==
    IF list = <<>> THEN <<>>
    ELSE IF startsWith(Head(list), <<"-">>) THEN FilterNoDash(Tail(list))
    ELSE <<Head(list)>> \o FilterNoDash(Tail(list))

Digits == {"0", "1", "2", "3", "4", "5", "6", "7", "8", "9"}

(***************************************************************************)
(* The names, values and tokens the model runs on, as character sequences. *)
(***************************************************************************)
N_basic == <<"b", "a", "s", "i", "c">>

N_danger == <<"d", "a", "n", "g", "e", "r">>

N_argsOnly == <<"a", "r", "g", "s", "O", "n", "l", "y">>

N_argsAndFlags == <<"a", "r", "g", "s", "A", "n", "d", "F", "l", "a", "g", "s">>

N_required == <<"r", "e", "q", "u", "i", "r", "e", "d">>

N_nest1 == <<"n", "e", "s", "t", "1">>

N_nest2 == <<"n", "e", "s", "t", "2">>

N_noInput == <<"n", "o", "I", "n", "p", "u", "t">>

N_fugazi == <<"f", "u", "g", "a", "z", "i">>

N_ordered == <<"o", "r", "d", "e", "r", "e", "d">>

N_7 == <<"7">>

N_constructor == <<"c", "o", "n", "s", "t", "r", "u", "c", "t", "o", "r">>

N_toString == <<"t", "o", "S", "t", "r", "i", "n", "g">>

N_valueOf == <<"v", "a", "l", "u", "e", "O", "f">>

N_hasOwnProperty == <<"h", "a", "s", "O", "w", "n", "P", "r", "o", "p", "e", "r", "t", "y">>

N_undefined == <<"u", "n", "d", "e", "f", "i", "n", "e", "d">>

F_other == <<"o", "t", "h", "e", "r">>

F_fast == <<"f", "a", "s", "t">>

F_bool == <<"b", "o", "o", "l">>

F_bee == <<"b", "e", "e">>

F_tee == <<"t", "e", "e">>

F_value == <<"v", "a", "l", "u", "e">>

F_enum == <<"e", "n", "u", "m">>

F_num == <<"n", "u", "m">>

F_req1 == <<"r", "e", "q", "1">>

F_req2 == <<"r", "e", "q", "2">>

F_zeta == <<"z", "e", "t", "a">>

F_7 == <<"7">>

F_force == <<"f", "o", "r", "c", "e">>

V_hello == <<"h", "e", "l", "l", "o">>

V_world == <<"w", "o", "r", "l", "d">>

V_x == <<"x">>

V_y == <<"y">>

V_5 == <<"5">>

V_empty == <<>>

T_help == <<"-", "-", "h", "e", "l", "p">>

T_h == <<"-", "h">>

T_force == <<"-", "-", "f", "o", "r", "c", "e">>

T_f == <<"-", "f">>

T_fo == <<"-", "f", "o">>

T_of == <<"-", "o", "f">>

T_other == <<"-", "-", "o", "t", "h", "e", "r">>

T_otherEqF == <<"-", "-", "o", "t", "h", "e", "r", "=", "f">>

T_o == <<"-", "o">>

T_fast == <<"-", "-", "f", "a", "s", "t">>

T_bool == <<"-", "-", "b", "o", "o", "l">>

T_boolEqX == <<"-", "-", "b", "o", "o", "l", "=", "x">>

T_b == <<"-", "b">>

T_t == <<"-", "t">>

T_bt == <<"-", "b", "t">>

T_tb == <<"-", "t", "b">>

T_z == <<"-", "z">>

T_bz == <<"-", "b", "z">>

T_value == <<"-", "-", "v", "a", "l", "u", "e">>

T_valueEqX == <<"-", "-", "v", "a", "l", "u", "e", "=", "x">>

T_valueEq == <<"-", "-", "v", "a", "l", "u", "e", "=">>

T_valueEqXEqY == <<"-", "-", "v", "a", "l", "u", "e", "=", "x", "=", "y">>

T_enum == <<"-", "-", "e", "n", "u", "m">>

T_enumEqHello == <<"-", "-", "e", "n", "u", "m", "=", "h", "e", "l", "l", "o">>

T_enumEqX == <<"-", "-", "e", "n", "u", "m", "=", "x">>

T_num == <<"-", "-", "n", "u", "m">>

T_numEq5 == <<"-", "-", "n", "u", "m", "=", "5">>

T_numEqX == <<"-", "-", "n", "u", "m", "=", "x">>

T_req1 == <<"-", "-", "r", "e", "q", "1">>

T_req1EqX == <<"-", "-", "r", "e", "q", "1", "=", "x">>

T_req2 == <<"-", "-", "r", "e", "q", "2">>

T_req2EqX == <<"-", "-", "r", "e", "q", "2", "=", "x">>

T_unknown == <<"-", "-", "u", "n", "k", "n", "o", "w", "n">>

T_constructor == <<"-", "-", "c", "o", "n", "s", "t", "r", "u", "c", "t", "o", "r">>

T_constructorEqX == <<"-", "-", "c", "o", "n", "s", "t", "r", "u", "c", "t", "o", "r", "=", "x">>

T_dashdash == <<"-", "-">>

T_zetaEqX == <<"-", "-", "z", "e", "t", "a", "=", "x">>

T_7EqX == <<"-", "-", "7", "=", "x">>

T_dash == <<"-">>

(***************************************************************************)
(* The command tree the engine is built on.  An object is a record; a map  *)
(* whose key order matters (a CommandMap, a flag schema) is a sequence of  *)
(* <<key, value>> entries in declaration order; an optional field that is  *)
(* absent is absent from the record.                                       *)
(***************************************************************************)
DangerFlags ==
    << <<F_other, [description |-> "Other flag", type |-> "boolean", short |-> "o"]>>,
       <<F_fast, [description |-> "Fast flag", type |-> "boolean", short |-> "f"]>> >>

ArgsAndFlagsFlags ==
    << <<F_bool, [description |-> "A boolean flag without short form", type |-> "boolean"]>>,
       <<F_bee, [description |-> "A boolean flag WITH short form", type |-> "boolean", short |-> "b"]>>,
       <<F_tee, [description |-> "A second boolean flag WITH short form", type |-> "boolean", short |-> "t"]>>,
       <<F_value, [description |-> "A value flag for any type of string", type |-> "value"]>>,
       <<F_enum, [description |-> "A value flag for an enum", type |-> "value",
                  only |-> [list |-> <<V_hello, V_world>>]]>>,
       <<F_num, [description |-> "A value flag for regex", type |-> "value",
                 only |-> [regexp |-> "/\\d+/"]]>> >>

RequiredFlags ==
    << <<F_req1, [description |-> "A required value flag", type |-> "value", required |-> TRUE]>>,
       <<F_value, [description |-> "An optional value flag", type |-> "value", required |-> FALSE]>>,
       <<F_req2, [description |-> "A second required value flag", type |-> "value", required |-> TRUE]>> >>

\* A command whose required flags are declared with a numeric name last.
OrderedFlags ==
    << <<F_zeta, [description |-> "A required value flag", type |-> "value", required |-> TRUE]>>,
       <<F_7, [description |-> "A required value flag with a numeric name", type |-> "value",
               required |-> TRUE]>> >>

Nest2Children ==
    << <<N_noInput, [description |-> "Example with no arguments or flags",
                     run |-> "noInput nest2", dangerous |-> FALSE]>>,
       <<N_7, [description |-> "Example with a numeric name",
               run |-> "7 nest2", dangerous |-> FALSE]>> >>

Nest1Children ==
    << <<N_noInput, [description |-> "Example with no arguments or flags",
                     run |-> "noInput nest1", dangerous |-> FALSE]>>,
       <<N_nest2, [description |-> "Second level nesting", children |-> Nest2Children]>> >>

Commands ==
    << <<N_basic, [description |-> "This is a basic command", run |-> "basic", dangerous |-> FALSE]>>,
       <<N_danger, [description |-> "Dangerous command", run |-> "danger", dangerous |-> TRUE,
                    flags |-> DangerFlags]>>,
       <<N_argsOnly, [description |-> "Example with only args", run |-> "argsOnly", dangerous |-> FALSE,
                      arguments |-> [nested |-> TRUE,
                                     lists |-> << <<"arg1">>, <<"arg1", "arg2", "arg3">> >>]]>>,
       <<N_argsAndFlags, [description |-> "Example with flags and args", run |-> "argsAndFlags",
                          dangerous |-> FALSE,
                          arguments |-> [nested |-> FALSE, lists |-> << <<"arg1">> >>],
                          flags |-> ArgsAndFlagsFlags,
                          example |-> "argsAndFlags x --value=y"]>>,
       <<N_required, [description |-> "Example with required flags", run |-> "required",
                      dangerous |-> FALSE, flags |-> RequiredFlags]>>,
       <<N_ordered, [description |-> "Example with a numeric flag name", run |-> "ordered",
                     dangerous |-> FALSE, flags |-> OrderedFlags]>>,
       <<N_nest1, [description |-> "First level nesting", children |-> Nest1Children]>> >>

\* The description given to create().
CliDescription == "An example API"

(***************************************************************************)
(* Property access of the host language.  obj[key] on a plain object finds *)
(* an own property or, failing that, a member inherited from the object    *)
(* prototype; the result is <<value>>, or <<>> for undefined.              *)
(***************************************************************************)
ObjectPrototypeKeys == {N_constructor, N_toString, N_valueOf, N_hasOwnProperty}

\* A member of the object prototype: a built-in function, with none of a node's fields.
ProtoMember(key) == [builtin |-> Str(key)]

HasOwn(entries, key) == \E i \in 1..Len(entries) : entries[i][1] = key

OwnValue(entries, key) == entries[CHOOSE i \in 1..Len(entries) : entries[i][1] = key][2]

GetProperty(entries, key) ==
    IF HasOwn(entries, key) THEN <<OwnValue(entries, key)>>
    ELSE IF key \in ObjectPrototypeKeys THEN <<ProtoMember(key)>>
    ELSE <<>>

\* The property key of an optional string: undefined becomes "undefined".
ToPropertyKey(optName) == IF optName = <<>> THEN N_undefined ELSE optName[1]

\* "name" in obj
In(name, obj) == name \in DOMAIN obj

\* Whether obj.name is truthy, for a boolean or absent field.
Truthy(obj, name) ==
    /\ In(name, obj)
    /\ CASE name = "dangerous" -> obj.dangerous
         [] name = "required" -> obj.required
         [] OTHER -> TRUE

\* Whether a property key is an array index: the canonical text of a natural
\* number (the names of the tree have at most nine digits).
isArrayIndex(key) ==
    /\ Len(key) \in 1..9
    /\ \A i \in 1..Len(key) : key[i] \in Digits
    /\ Len(key) > 1 => key[1] # "0"

digitValue(c) == CHOOSE d \in 0..9 : <<"0", "1", "2", "3", "4", "5", "6", "7", "8", "9">>[d + 1] = c

RECURSIVE toNumber(_)
toNumber(key) ==
    IF key = <<>> THEN 0
    ELSE 10 * toNumber(SubSeq(key, 1, Len(key) - 1)) + digitValue(key[Len(key)])

RECURSIVE insertByNumber(_, _)
insertByNumber(sorted, entry) ==
    IF sorted = <<>> THEN <<entry>>
    ELSE IF toNumber(entry[1]) < toNumber(Head(sorted)[1]) THEN <<entry>> \o sorted
    ELSE <<Head(sorted)>> \o insertByNumber(Tail(sorted), entry)

RECURSIVE indexEntries(_)
indexEntries(entries) ==
    IF entries = <<>> THEN <<>>
    ELSE LET last == entries[Len(entries)]
             before == indexEntries(SubSeq(entries, 1, Len(entries) - 1))
         IN  IF isArrayIndex(last[1]) THEN insertByNumber(before, last) ELSE before

RECURSIVE nameEntries(_)
nameEntries(entries) ==
    IF entries = <<>> THEN <<>>
    ELSE (IF isArrayIndex(Head(entries)[1]) THEN <<>> ELSE <<Head(entries)>>)
         \o nameEntries(Tail(entries))

\* ownEntries with the properties left as they were written.
ownEntries_asWritten(entries) == entries

\* The own properties of an object literal in the order for-in and
\* Object.entries visit them: array-index keys in ascending numeric order,
\* then the other keys in the order they were written.
ownEntries(entries) == indexEntries(entries) \o nameEntries(entries)

\* obj.description, the empty text when absent (join prints undefined as "").
DescriptionOf(obj) == IF In("description", obj) THEN obj.description ELSE ""

\* obj.children, no entries when absent (for-in over undefined visits nothing).
ChildrenOf(obj) == IF In("children", obj) THEN obj.children ELSE <<>>

\* command.flags || {}
FlagsOf(obj) == IF In("flags", obj) THEN obj.flags ELSE <<>>

(***************************************************************************)
(* invalidCommandString                                                    *)
(***************************************************************************)
invalidCommandString(commandName, pathSoFar) ==
    IF Len(pathSoFar) = 0
    THEN LET runInstruction == "Run \"--help\" to get a list of valid commands."
         IN  IF commandName = <<>>
             THEN "No command specified. " \o runInstruction
             ELSE "The command \"" \o Str(commandName[1]) \o "\" doesn't exist. " \o runInstruction
    ELSE LET pathName == join(StrEach(pathSoFar), " ")
             runInstruction == "Run \"" \o pathName \o " --help\" to get a list of valid subcommands."
         IN  IF commandName = <<>>
             THEN "No subcommand specified. " \o runInstruction
             ELSE "The subcommand \"" \o Str(commandName[1]) \o "\" doesn't exist. " \o runInstruction

(***************************************************************************)
(* createTable: rows are pushed, build() pads every cell but an unjoined   *)
(* last one to its column's width.                                         *)
(***************************************************************************)
RECURSIVE maxSize(_, _)
maxSize(rows, col) ==
    IF rows = <<>> THEN 0 ELSE Max(Len(Head(rows)[col]), maxSize(Tail(rows), col))

\* build(...joins): joins are completed with " " up to the column count, then "".
completeJoins(joins, columns) ==
    IF Len(joins) < columns + 1
    THEN joins \o [i \in 1..(columns - Len(joins)) |-> " "] \o <<"">>
    ELSE joins

RECURSIVE buildLine(_, _, _, _)
buildLine(rows, row, joins, col) ==
    IF col > Len(row) THEN ""
    ELSE LET isLast == col = Len(row)
             cell == IF isLast /\ joins[col + 1] = ""
                     THEN row[col]
                     ELSE padEnd(row[col], maxSize(rows, col)) \o joins[col + 1]
         IN  cell \o buildLine(rows, row, joins, col + 1)

build(rows, givenJoins, columns) ==
    LET joins == completeJoins(givenJoins, columns)
    IN  [j \in 1..Len(rows) |-> joins[1] \o buildLine(rows, rows[j], joins, 1)]

(***************************************************************************)
(* logHelp: the text written to the console for a node and its path.       *)
(***************************************************************************)
\* "run" in command ? "command" : "group"
typeOf(node) == IF In("run", node) THEN "command" ELSE "group"

\* The lines of the Arguments section.
argumentLines(node) ==
    IF In("arguments", node)
    THEN LET lists == node.arguments.lists
         IN  <<"\nArguments:">> \o [i \in 1..Len(lists) |-> "\t" \o join(lists[i], " ")]
    ELSE <<"\nArguments: NONE">>

\* The second column of a value flag's row.
onlyText(flag) ==
    IF ~In("only", flag) THEN "string"
    ELSE IF In("list", flag.only)
    THEN join([i \in 1..Len(flag.only.list) |-> "\"" \o Str(flag.only.list[i]) \o "\""], "/")
    ELSE flag.only.regexp

flagRow(flagName, flag) ==
    IF In("type", flag) /\ flag.type = "boolean"
    THEN <<Str(flagName), "bool", DescriptionOf(flag)>>
    ELSE <<IF Truthy(flag, "required") THEN Str(flagName) \o "*" ELSE Str(flagName),
           onlyText(flag), DescriptionOf(flag)>>

flagLines(node) ==
    IF In("flags", node)
    THEN LET flags == ownEntries(node.flags)
             rows == [i \in 1..Len(flags) |-> flagRow(flags[i][1], flags[i][2])]
         IN  <<"\nFlags:">> \o build(rows, <<"\t", " | ", ": ">>, 3)
    ELSE <<"\nFlags: NONE">>

exampleLines(node) ==
    IF In("example", node) THEN <<"\nExample:", node.example>> ELSE <<>>

subcommandRows(node) ==
    LET children == ownEntries(ChildrenOf(node))
    IN  [i \in 1..Len(children) |->
            <<Str(children[i][1]), typeOf(children[i][2]), DescriptionOf(children[i][2])>>]

\* headerLines with the header written for every path, the empty one too.
headerLines_always(node, nodePath) ==
    <<"Help for " \o typeOf(node) \o " \"" \o join(StrEach(nodePath), "/") \o "\":", "">>

headerLines(node, nodePath) ==
    IF Len(nodePath) > 0
    THEN <<"Help for " \o typeOf(node) \o " \"" \o join(StrEach(nodePath), "/") \o "\":", "">>
    ELSE <<>>

helpText(node, nodePath) ==
    headerLines(node, nodePath)
    \o <<"Description:", DescriptionOf(node)>>
    \o (IF In("run", node)
        THEN argumentLines(node) \o flagLines(node) \o exampleLines(node)
        ELSE <<"\nSubcommands:\n">> \o build(subcommandRows(node), <<"\t", " | ", ": ">>, 3))

logHelp(node, nodePath) == join(helpText(node, nodePath), "\n")

(***************************************************************************)
(* abort: one message on the error channel, then exit status 1.  The exit  *)
(* does not return, so nothing after an abort is executed.                 *)
(***************************************************************************)
Event(ch, text) == [ch |-> ch, text |-> text]

\* abort with the exit left out.
abort_noExit(message) == <<Event("error", message)>>

abort(message) == <<Event("error", message), Event("exit", "1")>>

(***************************************************************************)
(* parseArgs.  The state of the scan: the flag mapping and positional      *)
(* arguments built so far, the required flags still missing (in insertion  *)
(* order), the index of the token under the scan, and the message of the   *)
(* abort or the error thrown that ended the scan, if any.                  *)
(***************************************************************************)
\* The text to prefix to the second error message sentence.
errorHelpText == "Run command with \"--help\" for"

BoolValue(b) == [type |-> "boolean", bool |-> b, str |-> <<>>]

StringValue(s) == [type |-> "string", bool |-> FALSE, str |-> s]

\* resultFlags[name] = value
SetFlag(flags, name, value) ==
    [n \in (DOMAIN flags) \cup {name} |-> IF n = name THEN value ELSE flags[n]]

NoFlags == [n \in {} |-> BoolValue(FALSE)]

isBoolean(flag) == In("type", flag) /\ flag.type = "boolean"

isValue(flag) == In("type", flag) /\ flag.type = "value"

\* Every boolean flag starts as false.
RECURSIVE initialFlags(_)
initialFlags(expectedFlags) ==
    IF expectedFlags = <<>> THEN NoFlags
    ELSE LET rest == initialFlags(Tail(expectedFlags))
             name == Head(expectedFlags)[1]
             flag == Head(expectedFlags)[2]
         IN  IF isBoolean(flag) /\ name \notin DOMAIN rest
             THEN SetFlag(rest, name, BoolValue(FALSE))
             ELSE rest

\* shortFlagLookup with every character taken for the first alias declared.
shortFlagLookup_anyLetter(expectedFlags, short) ==
    LET hits == {i \in 1..Len(expectedFlags) :
                    isBoolean(expectedFlags[i][2]) /\ In("short", expectedFlags[i][2])}
    IN  IF hits = {} THEN <<>>
        ELSE <<expectedFlags[CHOOSE i \in hits : \A j \in hits : i <= j][1]>>

\* shortFlagMap[short]: the name of the last boolean flag declaring that alias.
shortFlagLookup(expectedFlags, short) ==
    LET hits == {i \in 1..Len(expectedFlags) :
                    /\ isBoolean(expectedFlags[i][2])
                    /\ In("short", expectedFlags[i][2])
                    /\ expectedFlags[i][2].short # ""
                    /\ expectedFlags[i][2].short = short}
    IN  IF hits = {} THEN <<>>
        ELSE <<expectedFlags[CHOOSE i \in hits : \A j \in hits : j <= i][1]>>

\* The names of the required value flags, in declaration order.
RECURSIVE initialRequired(_)
initialRequired(expectedFlags) ==
    IF expectedFlags = <<>> THEN <<>>
    ELSE LET name == Head(expectedFlags)[1]
             flag == Head(expectedFlags)[2]
         IN  (IF isValue(flag) /\ Truthy(flag, "required") THEN <<name>> ELSE <<>>)
             \o initialRequired(Tail(expectedFlags))

\* requiredFlags.delete(name)
RECURSIVE deleteName(_, _)
deleteName(names, name) ==
    IF names = <<>> THEN <<>>
    ELSE IF Head(names) = name THEN deleteName(Tail(names), name)
    ELSE <<Head(names)>> \o deleteName(Tail(names), name)

\* regexp.test(value), for the patterns of the tree.
regexpTest(regexp, value) ==
    CASE regexp = "/\\d+/" -> \E i \in 1..Len(value) : value[i] \in Digits
      [] OTHER -> FALSE

\* Whether the value satisfies the flag's `only`.
valueAllowed(flag, value) ==
    \/ ~In("only", flag)
    \/ IF In("regexp", flag.only)
       THEN regexpTest(flag.only.regexp, value)
       ELSE \E i \in 1..Len(flag.only.list) : flag.only.list[i] = value

initialScan(cmd) ==
    [resultFlags |-> initialFlags(ownEntries(FlagsOf(cmd))),
     resultArgs |-> <<>>,
     requiredFlags |-> initialRequired(ownEntries(FlagsOf(cmd))),
     i |-> 1,
     aborted |-> <<>>,
     thrown |-> <<>>]

\* The name of a long flag: the text between "--" and the first "=".
longFlagName(arg) ==
    LET flagString == substringFrom(arg, 2)
        equalsIndex == indexOf(flagString, "=")
    IN  IF equalsIndex = -1 THEN flagString ELSE substring(flagString, 0, equalsIndex)

\* skipsLongFlag with the carve-out for force left out.
skipsLongFlag_never(flagName, cmd) == FALSE

\* Whether the scan ignores this long flag name: force, on a dangerous command.
skipsLongFlag(flagName, cmd) == flagName = F_force /\ Truthy(cmd, "dangerous")

\* skipsShortFlag with the carve-out for f left out.
skipsShortFlag_never(short, cmd) == FALSE

\* Whether the scan ignores this short flag: f, on a dangerous command.
skipsShortFlag(short, cmd) == short = "f" /\ Truthy(cmd, "dangerous")

\* !nextArg: there is no next token, or it is the empty string.
noValue(list, k) == k > Len(list) \/ list[k] = <<>>

\* A token that starts with "--".
scanLongFlag(st, list, cmd) ==
    LET arg == list[st.i]
        flagString == substringFrom(arg, 2)
        equalsIndex == indexOf(flagString, "=")
        flagName == longFlagName(arg)
        found == GetProperty(FlagsOf(cmd), flagName)
        flag == found[1]
        inline == equalsIndex # -1
        value == IF inline THEN substringFrom(flagString, equalsIndex + 1) ELSE list[st.i + 1]
        next == IF inline THEN st.i + 1 ELSE st.i + 2
    IN  IF skipsLongFlag(flagName, cmd) THEN [st EXCEPT !.i = st.i + 1]
        ELSE IF found = <<>>
        THEN [st EXCEPT !.aborted = <<"Unknown flag \"" \o Str(flagName) \o "\" specified. "
                                       \o errorHelpText \o " a list of valid flags.">>]
        ELSE IF isBoolean(flag)
        THEN [st EXCEPT !.resultFlags = SetFlag(st.resultFlags, flagName, BoolValue(TRUE)),
                        !.i = st.i + 1]
        ELSE IF ~inline /\ noValue(list, st.i + 1)
        THEN [st EXCEPT !.aborted = <<"Missing value for flag \"" \o Str(flagName) \o "\"">>]
        ELSE IF ~valueAllowed(flag, value)
        THEN [st EXCEPT !.aborted = <<"Invalid value for flag \"" \o Str(flagName) \o "\". "
                                       \o errorHelpText \o " a list of valid values.">>]
        ELSE [st EXCEPT !.resultFlags = SetFlag(st.resultFlags, flagName, StringValue(value)),
                        !.requiredFlags = deleteName(st.requiredFlags, flagName),
                        !.i = next]

\* scanShortFlags with only the first character of the token looked at.
scanShortFlags_firstOnly(st, shortFlags, cmd) ==
    IF shortFlags = <<>> \/ st.aborted # <<>> THEN st
    ELSE LET short == Head(shortFlags)
             flag == shortFlagLookup(ownEntries(FlagsOf(cmd)), short)
         IN  IF skipsShortFlag(short, cmd) THEN st
             ELSE IF flag = <<>>
             THEN [st EXCEPT !.aborted = <<"Unknown short-flag \"" \o short \o "\" specified. "
                                            \o errorHelpText \o " a list of valid flags.">>]
             ELSE [st EXCEPT !.resultFlags = SetFlag(st.resultFlags, flag[1], BoolValue(TRUE))]

\* A token that starts with one "-": every character after it is a short flag.
RECURSIVE scanShortFlags(_, _, _)
scanShortFlags(st, shortFlags, cmd) ==
    IF shortFlags = <<>> \/ st.aborted # <<>> THEN st
    ELSE LET short == Head(shortFlags)
             flag == shortFlagLookup(ownEntries(FlagsOf(cmd)), short)
         IN  IF skipsShortFlag(short, cmd) THEN scanShortFlags(st, Tail(shortFlags), cmd)
             ELSE IF flag = <<>>
             THEN [st EXCEPT !.aborted = <<"Unknown short-flag \"" \o short \o "\" specified. "
                                            \o errorHelpText \o " a list of valid flags.">>]
             ELSE scanShortFlags(
                      [st EXCEPT !.resultFlags = SetFlag(st.resultFlags, flag[1], BoolValue(TRUE))],
                      Tail(shortFlags), cmd)

\* One turn of the loop over the tokens.
scanToken(st, list, cmd) ==
    LET arg == list[st.i]
    IN  IF startsWith(arg, <<"-", "-">>) THEN scanLongFlag(st, list, cmd)
        ELSE IF startsWith(arg, <<"-">>)
        THEN LET after == scanShortFlags(st, substringFrom(arg, 1), cmd)
             IN  IF after.aborted # <<>> THEN after ELSE [after EXCEPT !.i = st.i + 1]
        ELSE [st EXCEPT !.resultArgs = Append(st.resultArgs, arg), !.i = st.i + 1]

RECURSIVE scanAll(_, _, _)
scanAll(st, list, cmd) ==
    IF st.aborted # <<>> \/ st.i > Len(list) THEN st
    ELSE scanAll(scanToken(st, list, cmd), list, cmd)

\* validLengths with only the first declared shape looked at.
validLengths_firstOnly(cmd) ==
    IF In("arguments", cmd) THEN {Len(cmd.arguments.lists[1])} ELSE {0}

\* The argument counts the command accepts.
validLengths(cmd) ==
    IF In("arguments", cmd)
    THEN IF cmd.arguments.nested /\ Len(cmd.arguments.lists) > 0
         THEN {Len(cmd.arguments.lists[k]) : k \in 1..Len(cmd.arguments.lists)}
         ELSE {Len(cmd.arguments.lists[1])}
    ELSE {0}

\* The digits of a natural number.
RECURSIVE NatStr(_)
NatStr(n) ==
    LET digit == <<"0", "1", "2", "3", "4", "5", "6", "7", "8", "9">>[(n % 10) + 1]
    IN  IF n < 10 THEN digit ELSE NatStr(n \div 10) \o digit

\* checkRequired with only the first missing flag reported.
checkRequired_firstOnly(st) ==
    IF st.aborted # <<>> \/ Len(st.requiredFlags) = 0 THEN st
    ELSE [st EXCEPT !.aborted = <<"Missing required flags: " \o Str(st.requiredFlags[1])>>]

\* Verify no required flags are missing.
checkRequired(st) ==
    IF st.aborted # <<>> \/ Len(st.requiredFlags) = 0 THEN st
    ELSE [st EXCEPT !.aborted = <<"Missing required flags: " \o join(StrEach(st.requiredFlags), ",")>>]

\* Check that the amount of arguments left is valid.  Reading `arguments` of a
\* built-in function either throws a TypeError or yields nothing, by the host.
checkArgumentCount(st, cmd, restricted) ==
    IF st.aborted # <<>> THEN st
    ELSE IF In("builtin", cmd) /\ restricted THEN [st EXCEPT !.thrown = <<"TypeError">>]
    ELSE IF Len(st.resultArgs) \in validLengths(cmd) THEN st
    ELSE [st EXCEPT !.aborted = <<"Invalid argument count (" \o NatStr(Len(st.resultArgs)) \o "). "
                                   \o errorHelpText \o " valid argument combinations.">>]

parseArgs(list, cmd, restricted) ==
    checkArgumentCount(checkRequired(scanAll(initialScan(cmd), list, cmd)), cmd, restricted)

(***************************************************************************)
(* The argument vectors the model runs on: the leading tokens of a         *)
(* scenario followed by every sequence of at most MaxRest tokens of the    *)
(* scenario's alphabet.                                                    *)
(***************************************************************************)
RootAlphabet ==
    {N_basic, N_nest1, N_nest2, N_fugazi, N_constructor,
     T_help, T_h, T_unknown, V_x, V_empty}

BasicAlphabet == {V_x, V_empty, T_unknown, T_force, T_f, T_h, T_constructor, T_dash, T_dashdash}

DangerAlphabet ==
    {T_force, T_f, T_fo, T_o, T_otherEqF, T_fast, T_unknown, T_help, V_x}

ArgsOnlyAlphabet == {V_x, V_y, V_empty, T_unknown, T_b, T_h}

BoolAlphabet ==
    {V_x, T_bool, T_boolEqX, T_b, T_bt, T_tb, T_bz, T_dash, T_force}

ValueAlphabet ==
    {V_x, V_empty, T_value, T_valueEqX, T_valueEq, T_valueEqXEqY, T_constructor, T_b}

OnlyAlphabet == {V_x, V_hello, V_5, T_enum, T_enumEqHello, T_num, T_numEq5}

RequiredAlphabet ==
    {T_req1, T_req1EqX, T_req2EqX, T_value, T_unknown, T_z, V_x, V_empty}

OrderedAlphabet == {T_zetaEqX, T_7EqX, T_unknown, T_help, V_x}

NestAlphabet ==
    {N_noInput, N_nest2, N_7, N_fugazi, N_constructor, T_help, V_x, V_empty}

Scenarios ==
    {[lead |-> <<>>, alphabet |-> RootAlphabet],
     [lead |-> <<N_basic>>, alphabet |-> BasicAlphabet],
     [lead |-> <<N_danger>>, alphabet |-> DangerAlphabet],
     [lead |-> <<N_argsOnly>>, alphabet |-> ArgsOnlyAlphabet],
     [lead |-> <<N_argsAndFlags>>, alphabet |-> BoolAlphabet],
     [lead |-> <<N_argsAndFlags>>, alphabet |-> ValueAlphabet],
     [lead |-> <<N_argsAndFlags>>, alphabet |-> OnlyAlphabet],
     [lead |-> <<N_required>>, alphabet |-> RequiredAlphabet],
     [lead |-> <<N_ordered>>, alphabet |-> OrderedAlphabet],
     [lead |-> <<N_nest1>>, alphabet |-> NestAlphabet],
     [lead |-> <<N_nest1, N_nest2>>, alphabet |-> NestAlphabet]}

(***************************************************************************)
(* The run.                                                                *)
(***************************************************************************)
\* The value of `command` before a node is found.
NoCommand == [none |-> TRUE]

Init ==
    /\ \E sc \in Scenarios : \E k \in 0..MaxRest : \E rest \in [1..k -> sc.alphabet] :
          tokens = sc.lead \o rest
    /\ pc = "run"
    /\ isHelp = FALSE
    /\ commandMap = <<>>
    /\ args = <<>>
    /\ path = <<>>
    /\ command = NoCommand
    /\ lookups = 0
    /\ out = <<>>
    /\ runArgs = <<>>
    /\ runFlags = NoFlags

\* array.includes(token)
includesToken(list, token) == \E i \in 1..Len(list) : list[i] = token

\* !list[0]: the list is empty or starts with the empty string.
noFirst(list) == list = <<>> \/ list[1] = <<>>

\* helpRequested with the short form left out.
helpRequested_longOnly(list) == includesToken(list, T_help)

\* create().run: help mode is decided on the whole vector; in help mode every
\* token starting with "-" is dropped, and the root listing is printed when no
\* first token is left.
helpRequested(list) == includesToken(list, T_help) \/ includesToken(list, T_h)

RootGroup == [description |-> CliDescription, children |-> Commands]

run ==
    /\ pc = "run"
    /\ LET help == helpRequested(tokens)
           kept == IF help THEN FilterNoDash(tokens) ELSE tokens
       IN  /\ isHelp' = help
           /\ args' = kept
           /\ commandMap' = Commands
           /\ IF help /\ noFirst(kept)
              THEN /\ out' = Append(out, Event("log", logHelp(RootGroup, <<>>)))
                   /\ pc' = "done"
              ELSE /\ out' = out
                   /\ pc' = "runCommand"
    /\ UNCHANGED <<tokens, path, command, lookups, runArgs, runFlags>>

\* [...path, commandName]
pathWith(pathSoFar, commandName) ==
    Append(pathSoFar, IF commandName = <<>> THEN <<>> ELSE commandName[1])

\* childMap with the map of the current level passed on.
childMap_same(node, currentMap) == currentMap

\* The map the recursion goes on with: the children of the group found.
childMap(node, currentMap) == node.children

\* runCommand, up to the node found at this level: an abort, a help report, one
\* level deeper, or on to the executable's checks.
runCommand ==
    /\ pc = "runCommand"
    /\ LET commandName == IF args = <<>> THEN <<>> ELSE <<args[1]>>
           rest == IF args = <<>> THEN <<>> ELSE Tail(args)
           found == GetProperty(commandMap, ToPropertyKey(commandName))
           node == found[1]
       IN  /\ lookups' = lookups + 1
           /\ IF found = <<>>
              THEN /\ out' = out \o abort(invalidCommandString(commandName, path))
                   /\ pc' = "done"
                   /\ UNCHANGED <<commandMap, args, path, command>>
              ELSE IF In("children", node)
              THEN IF isHelp /\ noFirst(rest)
                   THEN /\ out' = Append(out, Event("log", logHelp(node, pathWith(path, commandName))))
                        /\ pc' = "done"
                        /\ UNCHANGED <<commandMap, args, path, command>>
                   ELSE /\ commandMap' = childMap(node, commandMap)
                        /\ args' = rest
                        /\ path' = pathWith(path, commandName)
                        /\ pc' = "runCommand"
                        /\ UNCHANGED <<out, command>>
              ELSE IF isHelp
              THEN /\ out' = Append(out, Event("log", logHelp(node, pathWith(path, commandName))))
                   /\ pc' = "done"
                   /\ UNCHANGED <<commandMap, args, path, command>>
              ELSE /\ command' = node
                   /\ args' = rest
                   /\ path' = pathWith(path, commandName)
                   /\ pc' = "dangerous"
                   /\ UNCHANGED <<out, commandMap>>
    /\ UNCHANGED <<tokens, isHelp, runArgs, runFlags>>

\* isForce with the test for the letter f left out.
isForce_anyDash(list) ==
    \/ includesToken(list, T_force)
    \/ \E i \in 1..Len(list) : startsWith(list[i], <<"-">>)

\* The force override, looked for in the tokens after the command path.
isForce(list) ==
    \/ includesToken(list, T_force)
    \/ \E i \in 1..Len(list) : startsWith(list[i], <<"-">>) /\ includes(list[i], "f")

ConfirmPrompt == "Are you sure you want to proceed?"

\* runCommand, the check of a dangerous command: confirm() is asked unless the
\* override is present, and its answer is the collaborator's.
dangerous ==
    /\ pc = "dangerous"
    /\ IF Truthy(command, "dangerous") /\ ~isForce(args)
       THEN \E answer \in BOOLEAN :
                IF answer
                THEN /\ out' = out \o <<Event("confirm", ConfirmPrompt), Event("answer", "true")>>
                     /\ pc' = "parseArgs"
                ELSE /\ out' = out \o <<Event("confirm", ConfirmPrompt), Event("answer", "false")>>
                                   \o abort("Aborted")
                     /\ pc' = "done"
       ELSE /\ out' = out
            /\ pc' = "parseArgs"
    /\ UNCHANGED <<tokens, isHelp, commandMap, args, path, command, lookups, runArgs, runFlags>>

\* runCommand, the last line: command.run(...parseArgs(args, command)).
invoke ==
    /\ pc = "parseArgs"
    /\ \E restricted \in (IF In("builtin", command) THEN BOOLEAN ELSE {FALSE}) :
          LET parsed == parseArgs(args, command, restricted)
          IN  IF parsed.aborted # <<>>
              THEN /\ out' = out \o abort(parsed.aborted[1])
                   /\ UNCHANGED <<runArgs, runFlags>>
              ELSE IF parsed.thrown # <<>> \/ ~In("run", command)
              THEN /\ out' = Append(out, Event("throw", "TypeError"))
                   /\ UNCHANGED <<runArgs, runFlags>>
              ELSE /\ out' = Append(out, Event("run", command.run))
                   /\ runArgs' = parsed.resultArgs
                   /\ runFlags' = parsed.resultFlags
    /\ pc' = "done"
    /\ UNCHANGED <<tokens, isHelp, commandMap, args, path, command, lookups>>

Next == run \/ runCommand \/ dangerous \/ invoke

Spec == Init /\ [][Next]_vars

(***************************************************************************)
(* What the properties are stated in: the calls observed on the            *)
(* collaborators, and a reading of the tokens that does not go through     *)
(* the definitions of the engine above.                                    *)
(***************************************************************************)
Done == pc = "done"

EventsOf(ch) == {i \in 1..Len(out) : out[i].ch = ch}

HandlerInvoked == EventsOf("run") # {}

ConfirmCount == Cardinality(EventsOf("confirm"))

ConfirmReturned(text) == \E i \in 1..Len(out) : out[i] = Event("answer", text)

\* The run ended by an abort with this message: the message, then exit status 1,
\* and nothing after.
AbortedWith(message) ==
    /\ Done
    /\ Len(out) >= 2
    /\ out[Len(out) - 1] = Event("error", message)
    /\ out[Len(out)] = Event("exit", "1")

\* The run ended by some abort.
Aborted == Done /\ Len(out) >= 2 /\ out[Len(out)].ch = "exit"

\* The message of the abort that ended the run.
AbortMessage == out[Len(out) - 1].text

\* A node was found outside help mode and it is an executable command.
AtExecutable == pc \in {"dangerous", "parseArgs", "done"} /\ In("run", command)

AtDangerous == AtExecutable /\ command.dangerous

IsLongToken(t) == Len(t) >= 2 /\ t[1] = "-" /\ t[2] = "-"

IsShortToken(t) == Len(t) >= 1 /\ t[1] = "-" /\ ~IsLongToken(t)

HasChar(t, c) == \E j \in DOMAIN t : t[j] = c

\* The token is --force, or a single-dash token with an f in it.
IsForceToken(t) == t = T_force \/ (IsShortToken(t) /\ HasChar(t, "f"))

\* Any token that starts with a dash and has an f in it, or --force.
IsDashedFToken(t) == t = T_force \/ (Len(t) >= 1 /\ t[1] = "-" /\ HasChar(t, "f"))

HasForceToken(list) == \E i \in DOMAIN list : IsForceToken(list[i])

HasDashedFToken(list) == \E i \in DOMAIN list : IsDashedFToken(list[i])

UnknownFlagMessage(name) ==
    "Unknown flag \"" \o name \o "\" specified. Run command with \"--help\" for a list of valid flags."

UnknownShortFlagMessage(short) ==
    "Unknown short-flag \"" \o short
        \o "\" specified. Run command with \"--help\" for a list of valid flags."

C2_ForceSkipsConfirm ==
    (AtDangerous /\ HasForceToken(args)) =>
        /\ ConfirmCount = 0
        /\ Done =>
             \/ HandlerInvoked
             \/ /\ Aborted
                /\ AbortMessage \notin
                       {"Aborted", UnknownFlagMessage("force"), UnknownShortFlagMessage("f")}
        /\ (Done /\ \A i \in DOMAIN args : IsForceToken(args[i]))
               => out = <<Event("run", "danger")>>

C2_Witness ==
    /\ AtDangerous
    /\ tokens = <<N_danger, T_fo, T_force>>
    /\ out = <<Event("run", "danger")>>
    /\ runFlags[F_other].bool

(***************************************************************************)
(* C3.  On a dangerous command outside help mode whose remaining tokens    *)
(* hold no --force and no single-dash token with an f in it, confirm() is  *)
(* invoked exactly once, with the fixed prompt, before the handler.        *)
(***************************************************************************)
C3_ConfirmUnlessForceToken ==
    (AtDangerous /\ pc # "dangerous" /\ ~HasForceToken(args)) =>
        /\ ConfirmCount = 1
        /\ out[1] = Event("confirm", "Are you sure you want to proceed?")

(***************************************************************************)
(* The walk of the command tree the properties speak of: the leading       *)
(* tokens are used one by one as keys, a key being a name the child map    *)
(* declares.  The result tells how the walk ended ("command": at an        *)
(* executable; "none": no token left, in a group; "unknown": the next      *)
(* token is no key of the group), how many tokens it consumed, and the     *)
(* node it stands at.                                                      *)
(***************************************************************************)
Declares(entries, name) == \E i \in DOMAIN entries : entries[i][1] = name

Declared(entries, name) == entries[CHOOSE i \in DOMAIN entries : entries[i][1] = name][2]

RECURSIVE Walk(_, _, _)
Walk(node, list, consumed) ==
    IF "children" \notin DOMAIN node THEN [kind |-> "command", at |-> consumed, node |-> node]
    ELSE IF consumed = Len(list) THEN [kind |-> "none", at |-> consumed, node |-> node]
    ELSE IF ~Declares(node.children, list[consumed + 1])
    THEN [kind |-> "unknown", at |-> consumed, node |-> node]
    ELSE Walk(Declared(node.children, list[consumed + 1]), list, consumed + 1)

HelpAsked == \E i \in DOMAIN tokens : tokens[i] \in {T_help, T_h}

IsDashed(t) == Len(t) >= 1 /\ t[1] = "-"

RECURSIVE WithoutDashed(_)
WithoutDashed(list) ==
    IF list = <<>> THEN <<>>
    ELSE (IF IsDashed(list[1]) THEN <<>> ELSE <<list[1]>>) \o WithoutDashed(Tail(list))

\* The message of a failed resolution below the consumed path.
ResolutionMessage(list, consumed) ==
    LET what == IF consumed = 0 THEN "command" ELSE "subcommand"
        hint == IF consumed = 0
                THEN "Run \"--help\" to get a list of valid " \o what \o "s."
                ELSE "Run \"" \o join(StrEach(SubSeq(list, 1, consumed)), " ")
                         \o " --help\" to get a list of valid " \o what \o "s."
    IN  IF consumed = Len(list)
        THEN "No " \o what \o " specified. " \o hint
        ELSE "The " \o what \o " \"" \o Str(list[consumed + 1]) \o "\" doesn't exist. " \o hint

Least(S) == CHOOSE m \in S : \A n \in S : m <= n

LongBody(t) == SubSeq(t, 3, Len(t))

Equals(t) == {j \in DOMAIN LongBody(t) : LongBody(t)[j] = "="}

HasInline(t) == Equals(t) # {}

LongNameOf(t) == IF HasInline(t) THEN SubSeq(LongBody(t), 1, Least(Equals(t)) - 1) ELSE LongBody(t)

InlineValueOf(t) == SubSeq(LongBody(t), Least(Equals(t)) + 1, Len(LongBody(t)))

Schema(cmd) == IF "flags" \in DOMAIN cmd THEN cmd.flags ELSE <<>>

DeclaresValueFlag(cmd, name) ==
    Declares(Schema(cmd), name) /\ Declared(Schema(cmd), name).type = "value"

DeclaresBooleanFlag(cmd, name) ==
    Declares(Schema(cmd), name) /\ Declared(Schema(cmd), name).type = "boolean"

\* The engine's own flag on this command: force, when the command is dangerous.
IsEngineFlag(cmd, name) == name = F_force /\ cmd.dangerous

TakesNext(cmd, t) ==
    IsLongToken(t) /\ ~HasInline(t) /\ DeclaresValueFlag(cmd, LongNameOf(t))

RECURSIVE Roles(_, _, _)
Roles(cmd, list, i) ==
    IF i > Len(list) THEN <<>>
    ELSE IF TakesNext(cmd, list[i]) /\ i < Len(list)
    THEN <<"flag", "value">> \o Roles(cmd, list, i + 2)
    ELSE <<IF IsDashed(list[i]) THEN "flag" ELSE "positional">> \o Roles(cmd, list, i + 1)

RECURSIVE Pick(_, _, _)
Pick(list, roles, role) ==
    IF list = <<>> THEN <<>>
    ELSE (IF Head(roles) = role THEN <<Head(list)>> ELSE <<>>) \o Pick(Tail(list), Tail(roles), role)

Positionals(cmd, list) == Pick(list, Roles(cmd, list, 1), "positional")

\* Every long token that stands as a flag names a declared flag or the engine's.
LongFlagsDeclared(cmd, list) ==
    \A i \in DOMAIN list :
        (Roles(cmd, list, 1)[i] = "flag" /\ IsLongToken(list[i]))
            => \/ Declares(Schema(cmd), LongNameOf(list[i]))
               \/ IsEngineFlag(cmd, LongNameOf(list[i]))

ShapeLengths(cmd) ==
    IF "arguments" \in DOMAIN cmd
    THEN {Len(cmd.arguments.lists[k]) : k \in DOMAIN cmd.arguments.lists}
    ELSE {0}

ArityMessage(n) ==
    "Invalid argument count (" \o NatStr(n)
        \o "). Run command with \"--help\" for valid argument combinations."

\* The run reached the parsing of the remaining tokens of an executable command.
Parsed == Done /\ AtExecutable /\ ~AbortedWith("Aborted")

\* The run ended by an abort that is not the arity error: a flag error.
FlagError == Aborted /\ AbortMessage \notin {ArityMessage(n) : n \in 0..Len(args)}

\* What the parsing of `list` for the command of this run ends with.
OutcomeOf(list) ==
    LET parsed == parseArgs(list, command, FALSE)
    IN  IF parsed.aborted # <<>>
        THEN [error |-> parsed.aborted, resultArgs |-> <<>>, resultFlags |-> NoFlags]
        ELSE [error |-> <<>>, resultArgs |-> parsed.resultArgs, resultFlags |-> parsed.resultFlags]

\* What the parsing of this run ended with.
Outcome ==
    IF HandlerInvoked
    THEN [error |-> <<>>, resultArgs |-> runArgs, resultFlags |-> runFlags]
    ELSE [error |-> <<AbortMessage>>, resultArgs |-> <<>>, resultFlags |-> NoFlags]

Swap(list, k) == [i \in DOMAIN list |-> IF i = k THEN list[k + 1] ELSE IF i = k + 1 THEN list[k] ELSE list[i]]

\* The places where a positional argument and a flag that stands alone are neighbours.
FlagBesidePositional(cmd, list) ==
    {k \in 1..(Len(list) - 1) :
        LET roles == Roles(cmd, list, 1)
            flagAt == IF roles[k] = "flag" THEN k ELSE k + 1
        IN  /\ {roles[k], roles[k + 1]} = {"flag", "positional"}
            /\ ~TakesNext(cmd, list[flagAt])}

MissingValueMessage(name) == "Missing value for flag \"" \o name \o "\""

InvalidValueMessage(name) ==
    "Invalid value for flag \"" \o name
        \o "\". Run command with \"--help\" for a list of valid values."

LongNames(list) == {LongNameOf(list[i]) : i \in {j \in DOMAIN list : IsLongToken(list[j])}}

ShortLetters(list) ==
    UNION {{list[i][j] : j \in 2..Len(list[i])} : i \in {j \in DOMAIN list : IsShortToken(list[j])}}

ScanErrorMessages(list) ==
    {UnknownFlagMessage(Str(n)) : n \in LongNames(list)}
    \cup {MissingValueMessage(Str(n)) : n \in LongNames(list)}
    \cup {InvalidValueMessage(Str(n)) : n \in LongNames(list)}
    \cup {UnknownShortFlagMessage(c) : c \in ShortLetters(list)}

\* The declared names of the required value flags, in declaration order.
RECURSIVE RequiredNames(_)
RequiredNames(schema) ==
    IF schema = <<>> THEN <<>>
    ELSE (IF /\ schema[1][2].type = "value"
             /\ "required" \in DOMAIN schema[1][2]
             /\ schema[1][2].required
          THEN <<schema[1][1]>> ELSE <<>>) \o RequiredNames(Tail(schema))

\* The flag is given in the tokens: as --name=value, or as --name with a token after it.
Supplied(cmd, list, name) ==
    \E i \in DOMAIN list :
        /\ Roles(cmd, list, 1)[i] = "flag"
        /\ IsLongToken(list[i])
        /\ LongNameOf(list[i]) = name
        /\ HasInline(list[i]) \/ i < Len(list)

RECURSIVE Unsupplied(_, _, _)
Unsupplied(cmd, list, names) ==
    IF names = <<>> THEN <<>>
    ELSE (IF Supplied(cmd, list, names[1]) THEN <<>> ELSE <<names[1]>>)
         \o Unsupplied(cmd, list, Tail(names))

RECURSIVE CommaJoined(_)
CommaJoined(names) ==
    IF names = <<>> THEN ""
    ELSE IF Len(names) = 1 THEN Str(names[1])
    ELSE Str(names[1]) \o "," \o CommaJoined(Tail(names))

(***************************************************************************)
(* The order in which the host language visits the names of a schema or of *)
(* a child map: the names that are canonical natural numbers first, in     *)
(* ascending numeric order, then the other names in declaration order.     *)
(***************************************************************************)
IsNumeric(name) ==
    /\ name # <<>>
    /\ \A k \in DOMAIN name : name[k] \in Digits
    /\ Len(name) > 1 => name[1] # "0"

DigitRank(c) == CHOOSE d \in 0..9 : NatStr(d) = c

\* a < b as numbers, for canonical numerals: the shorter, or the first differing digit.
LessNumeric(a, b) ==
    \/ Len(a) < Len(b)
    \/ /\ Len(a) = Len(b)
       /\ \E k \in DOMAIN a :
              /\ DigitRank(a[k]) < DigitRank(b[k])
              /\ \A m \in 1..(k - 1) : a[m] = b[m]

VisitedBefore(entries, i, j) ==
    LET a == entries[i][1]
        b == entries[j][1]
    IN  IF IsNumeric(a) THEN ~IsNumeric(b) \/ LessNumeric(a, b)
        ELSE ~IsNumeric(b) /\ i < j

InKeyOrder(entries) ==
    [k \in 1..Len(entries) |->
        entries[CHOOSE i \in DOMAIN entries :
                    Cardinality({j \in DOMAIN entries : VisitedBefore(entries, j, i)}) = k - 1]]

(***************************************************************************)
(* C6.  As claimed: when the remaining tokens of an executable command are *)
(* parsed and a required value flag is not supplied, the handler is not    *)
(* invoked and the run aborts: with an error of the scan (unknown flag,    *)
(* missing value, invalid value) or else with "Missing required flags: "   *)
(* followed by exactly the unsupplied required names, comma-joined in      *)
(* declaration order.                                                      *)
(***************************************************************************)
C6_MissingRequiredFlagsAsClaimed ==
    Parsed =>
        LET missing == Unsupplied(command, args, RequiredNames(Schema(command)))
        IN  missing # <<>> =>
                /\ ~HandlerInvoked
                /\ Aborted
                /\ \/ AbortMessage \in ScanErrorMessages(args)
                   \/ AbortMessage = "Missing required flags: " \o CommaJoined(missing)

(***************************************************************************)
(* C6, amended.  The same, with the unsupplied required names comma-joined *)
(* in the order the host language visits the schema's names: numeric names *)
(* first in ascending order, then the other names in declaration order.    *)
(***************************************************************************)
C6_MissingRequiredFlags ==
    Parsed =>
        LET missing == Unsupplied(command, args, RequiredNames(InKeyOrder(Schema(command))))
        IN  /\ missing # <<>> =>
                /\ ~HandlerInvoked
                /\ Aborted
                /\ \/ AbortMessage \in ScanErrorMessages(args)
                   \/ AbortMessage = "Missing required flags: " \o CommaJoined(missing)
            /\ (missing = <<>> /\ Aborted) =>
                   AbortMessage \in ScanErrorMessages(args) \cup {ArityMessage(n) : n \in 0..Len(args)}

C6_Witness ==
    /\ Parsed
    /\ tokens = <<N_ordered, V_x>>
    /\ out = <<Event("error", "Missing required flags: 7,zeta"), Event("exit", "1")>>

(***************************************************************************)
(* C7.  As claimed: in the mapping passed to the handler every declared    *)
(* boolean flag is present, and it is true exactly when --name occurs in   *)
(* the tokens or its short alias occurs in a single-dash token.            *)
(***************************************************************************)
BooleanFlagsOf(cmd) == {i \in DOMAIN Schema(cmd) : Schema(cmd)[i][2].type = "boolean"}

LongOccurs(list, name) ==
    \E i \in DOMAIN list : IsLongToken(list[i]) /\ LongNameOf(list[i]) = name

ShortOccurs(list, flag) ==
    /\ "short" \in DOMAIN flag
    /\ \E i \in DOMAIN list : IsShortToken(list[i]) /\ \E j \in 2..Len(list[i]) : list[i][j] = flag.short

LongGiven(cmd, list, name) ==
    \E i \in DOMAIN list :
        /\ Roles(cmd, list, 1)[i] = "flag"
        /\ IsLongToken(list[i])
        /\ LongNameOf(list[i]) = name

ShortGiven(cmd, list, flag) ==
    /\ "short" \in DOMAIN flag
    /\ ~(flag.short = "f" /\ cmd.dangerous)
    /\ \E i \in DOMAIN list :
           /\ Roles(cmd, list, 1)[i] = "flag"
           /\ IsShortToken(list[i])
           /\ \E j \in 2..Len(list[i]) : list[i][j] = flag.short

TwoTokenFlags(cmd, list) ==
    {k \in 1..(Len(list) - 1) : Roles(cmd, list, 1)[k] = "flag" /\ TakesNext(cmd, list[k])}

\* The list with the two tokens at k and k + 1 written as one, --name=value.
Inlined(list, k) ==
    SubSeq(list, 1, k - 1) \o <<list[k] \o <<"=">> \o list[k + 1]>> \o SubSeq(list, k + 2, Len(list))

C8_InlineAndTwoTokenAgree ==
    (Parsed /\ LongFlagsDeclared(command, args)) => \A k \in TwoTokenFlags(command, args) : OutcomeOf(Inlined(args, k)) = Outcome

(***************************************************************************)
(* C9.  Outside help mode the node whose checks are run, and whose handler *)
(* is invoked, is the executable the leading tokens lead to as keys of the *)
(* root map and of each group's children in turn; the tokens parsed are    *)
(* exactly those after the consumed path, and the handler receives the     *)
(* result of parsing them.  The handler is invoked at most once.           *)
(***************************************************************************)
C9_HandlerOfResolvedNode ==
    LET w == Walk(RootGroup, tokens, 0)
        after == SubSeq(tokens, w.at + 1, Len(tokens))
    IN  /\ AtExecutable =>
               /\ ~HelpAsked
               /\ w.kind = "command"
               /\ command = w.node
               /\ path = SubSeq(tokens, 1, w.at)
               /\ args = after
        /\ HandlerInvoked =>
               /\ AtExecutable /\ Done
               /\ Cardinality(EventsOf("run")) = 1
               /\ out[Len(out)] = Event("run", w.node.run)
               /\ runArgs = parseArgs(after, w.node, FALSE).resultArgs
               /\ runFlags = parseArgs(after, w.node, FALSE).resultFlags
        /\ (Done /\ ~HelpAsked /\ w.kind = "command") => AtExecutable

C9_Witness ==
    /\ tokens = <<N_nest1, N_nest2, N_noInput>>
    /\ Done
    /\ out = <<Event("run", "noInput nest2")>>
    /\ path = tokens
    /\ args = <<>>

(***************************************************************************)
(* C10.  Outside help mode, when the next path token is no key of the      *)
(* current level's child map, or no token is left in a group, the run      *)
(* aborts with the message of that level: "The command ... doesn't exist"  *)
(* or "No command specified" at the root, "The subcommand ... doesn't      *)
(* exist" or "No subcommand specified" below it, each with the help        *)
(* invocation of the consumed path.                                        *)
(***************************************************************************)
C10_UnknownNameAborts ==
    (Done /\ ~HelpAsked) =>
        LET w == Walk(RootGroup, tokens, 0)
        IN  w.kind \in {"unknown", "none"} =>
                out = <<Event("error", ResolutionMessage(tokens, w.at)), Event("exit", "1")>>

(***************************************************************************)
(* C11.  A run that writes to the error channel or signals an exit status  *)
(* has aborted: it wrote exactly one error message, signalled exit status  *)
(* 1 right after it and did nothing more; no handler was invoked in it.    *)
(* The message is that of a resolution, confirmation, flag or arity error. *)
(***************************************************************************)
C11_AbortIsSingleAndFinal ==
    (EventsOf("error") # {} \/ EventsOf("exit") # {}) =>
        /\ Done
        /\ Cardinality(EventsOf("error")) = 1
        /\ Cardinality(EventsOf("exit")) = 1
        /\ Len(out) >= 2
        /\ out[Len(out) - 1].ch = "error"
        /\ out[Len(out)] = Event("exit", "1")
        /\ ~HandlerInvoked
        /\ EventsOf("throw") = {}
        /\ IF command = NoCommand
           THEN LET list == IF HelpAsked THEN WithoutDashed(tokens) ELSE tokens
                IN  /\ Len(out) = 2
                    /\ AbortMessage = ResolutionMessage(list, Len(path))
           ELSE AbortMessage \in
                    {"Aborted"}
                    \cup ScanErrorMessages(args)
                    \cup {"Missing required flags: "
                              \o CommaJoined(Unsupplied(command, args,
                                                         RequiredNames(InKeyOrder(Schema(command)))))}
                    \cup {ArityMessage(n) : n \in 0..Len(args)}

C11_Witness ==
    /\ tokens = <<N_danger, T_unknown>>
    /\ out = <<Event("confirm", ConfirmPrompt), Event("answer", "true"),
               Event("error", UnknownFlagMessage("unknown")), Event("exit", "1")>>
    /\ Done

(***************************************************************************)
(* C12.  When the remaining tokens of an executable command are parsed and *)
(* a long token standing as a flag names no flag of the command's schema   *)
(* (force on a dangerous command apart), the handler is not invoked and    *)
(* the run aborts; when that token is the first flag among the tokens the  *)
(* abort is the unknown-flag error for its name.  So --force on a command  *)
(* that is not dangerous aborts with the unknown-flag error for force, and *)
(* on a dangerous command force never raises it.                           *)
(***************************************************************************)
FlagsAt(cmd, list) == {i \in DOMAIN list : Roles(cmd, list, 1)[i] = "flag"}

UndeclaredLongAt(cmd, list) ==
    {i \in FlagsAt(cmd, list) :
        /\ IsLongToken(list[i])
        /\ ~Declares(Schema(cmd), LongNameOf(list[i]))
        /\ ~IsEngineFlag(cmd, LongNameOf(list[i]))}

C12_UnknownLongFlagAborts ==
    Parsed =>
        LET bad == UndeclaredLongAt(command, args)
        IN  /\ bad # {} =>
                /\ ~HandlerInvoked
                /\ Aborted
                /\ Least(bad) = Least(FlagsAt(command, args))
                       => AbortedWith(UnknownFlagMessage(Str(LongNameOf(args[Least(bad)]))))
            /\ (Aborted /\ AbortMessage = UnknownFlagMessage("force")) => ~command.dangerous

(***************************************************************************)
(* C13.  As claimed: when the remaining tokens of an executable command    *)
(* are parsed and a single-dash token among them holds a character that is *)
(* not the short alias of a declared boolean flag (f on a dangerous        *)
(* command apart), the run aborts and the handler is not invoked.          *)
(***************************************************************************)
IsAlias(cmd, c) ==
    \E i \in DOMAIN Schema(cmd) :
        /\ Schema(cmd)[i][2].type = "boolean"
        /\ "short" \in DOMAIN Schema(cmd)[i][2]
        /\ Schema(cmd)[i][2].short = c

\* The places in a single-dash token of the characters that raise an error.
BadChars(cmd, t) ==
    {j \in 2..Len(t) : ~IsAlias(cmd, t[j]) /\ ~(t[j] = "f" /\ cmd.dangerous)}

ShortBadAt(cmd, list) ==
    {i \in FlagsAt(cmd, list) : IsShortToken(list[i]) /\ BadChars(cmd, list[i]) # {}}

KindOf(node) == IF "run" \in DOMAIN node THEN "command" ELSE "group"

RECURSIVE SlashJoined(_)
SlashJoined(names) ==
    IF names = <<>> THEN ""
    ELSE IF Len(names) = 1 THEN Str(names[1])
    ELSE Str(names[1]) \o "/" \o SlashJoined(Tail(names))

HeaderText(node, names) ==
    IF names = <<>> THEN ""
    ELSE "Help for " \o KindOf(node) \o " \"" \o SlashJoined(names) \o "\":\n\n"

Width(texts) ==
    IF texts = <<>> THEN 0
    ELSE CHOOSE n \in {Len(texts[i]) : i \in DOMAIN texts} : \A i \in DOMAIN texts : Len(texts[i]) <= n

Padded(text, n) == text \o Spaces(n - Len(text))

SubcommandRow(children, i) ==
    LET names == [k \in DOMAIN children |-> Str(children[k][1])]
        kinds == [k \in DOMAIN children |-> KindOf(children[k][2])]
    IN  "\t" \o Padded(names[i], Width(names)) \o " | " \o Padded(kinds[i], Width(kinds))
             \o ": " \o children[i][2].description

RECURSIVE RowsFrom(_, _)
RowsFrom(children, i) ==
    IF i > Len(children) THEN ""
    ELSE "\n" \o SubcommandRow(children, i) \o RowsFrom(children, i + 1)

\* The report of a group whose children are listed in the given order.
GroupReport(node, names, children) ==
    HeaderText(node, names) \o "Description:\n" \o node.description
        \o "\n\nSubcommands:\n" \o RowsFrom(children, 1)

\* The report of a command: after the description, its own sections.
CommandReport(node, names) ==
    HeaderText(node, names) \o "Description:\n" \o node.description \o "\n"
        \o join(argumentLines(node) \o flagLines(node) \o exampleLines(node), "\n")

\* The one report of a help request, the children of a group taken in declaration order or not.
HelpReportIs(inDeclarationOrder) ==
    LET kept == WithoutDashed(tokens)
        w == Walk(RootGroup, kept, 0)
        names == SubSeq(kept, 1, w.at)
    IN  w.kind \in {"command", "none"} =>
            out = <<Event("log",
                          IF w.kind = "command" THEN CommandReport(w.node, names)
                          ELSE GroupReport(w.node, names,
                                           IF inDeclarationOrder THEN w.node.children
                                           ELSE InKeyOrder(w.node.children)))>>

(***************************************************************************)
(* C14.  As claimed: a help request at a path that resolves to a node      *)
(* emits one report, holding the node's description after the line         *)
(* "Description:" and, for a group, the section "Subcommands:" with        *)
(* exactly one row per child, in the declaration order of the child map,   *)
(* each row giving the child's name, kind and description.                 *)
(***************************************************************************)
C14_HelpReportAsClaimed == (HelpAsked /\ Done) => HelpReportIs(TRUE)

(***************************************************************************)
(* C14, amended.  The same, with the rows in the order the host language   *)
(* visits the names of the child map: numeric names first in ascending     *)
(* order, then the other names in declaration order.                       *)
(***************************************************************************)
C14_HelpReport == (HelpAsked /\ Done) => HelpReportIs(FALSE)

C14_Witness ==
    /\ tokens = <<N_nest1, N_nest2, T_help>>
    /\ Done
    /\ out = <<Event("log", "Help for group \"nest1/nest2\":\n\nDescription:\nSecond level nesting\n\nSubcommands:\n\n\t7       | command: Example with a numeric name\n\tnoInput | command: Example with no arguments or flags")>>

ValueFlagsAt(cmd, list) ==
    {i \in FlagsAt(cmd, list) :
        /\ IsLongToken(list[i])
        /\ DeclaresValueFlag(cmd, LongNameOf(list[i]))}

ValueLacking(cmd, list) ==
    \E i \in ValueFlagsAt(cmd, list) : ~HasInline(list[i]) /\ i = Len(list)

ValueGivenAt(list, i) == IF HasInline(list[i]) THEN InlineValueOf(list[i]) ELSE list[i + 1]

ValueRefused(cmd, list) ==
    \E i \in ValueFlagsAt(cmd, list) :
        /\ HasInline(list[i]) \/ i < Len(list)
        /\ ~valueAllowed(Declared(Schema(cmd), LongNameOf(list[i])), ValueGivenAt(list, i))

HasFlagError(cmd, list) ==
    \/ UndeclaredLongAt(cmd, list) # {}
    \/ ShortBadAt(cmd, list) # {}
    \/ ValueLacking(cmd, list)
    \/ ValueRefused(cmd, list)
    \/ Unsupplied(cmd, list, RequiredNames(Schema(cmd))) # <<>>

IsArityMessage(message) == message \in {ArityMessage(n) : n \in 0..Len(args)}

(***************************************************************************)
(* C16.  When the remaining tokens of an executable command are parsed and *)
(* they have both a flag error (unknown flag, missing value, invalid value *)
(* or missing required flag) and a number of positional arguments that     *)
(* matches no declared shape, the run aborts with a flag error and never   *)
(* with the "Invalid argument count" error.                                *)
(***************************************************************************)
C16_FlagErrorBeforeArity ==
    (Parsed /\ HasFlagError(command, args)
            /\ Len(Positionals(command, args)) \notin ShapeLengths(command)) =>
        /\ Aborted
        /\ ~HandlerInvoked
        /\ ~IsArityMessage(AbortMessage)

(***************************************************************************)
(* C17.  On a dangerous command whose remaining tokens hold no --force and *)
(* no single-dash token with an f in it, once the check of the command is  *)
(* past, confirm() has been invoked first of all.  When it returned false  *)
(* the run is the prompt followed by the abort "Aborted", whatever flag or *)
(* arity error the tokens hold; when it returned true what follows is the  *)
(* full validation of the tokens: the abort of their flag or arity error,  *)
(* or else the handler.                                                    *)
(***************************************************************************)
C17_ConfirmBeforeValidation ==
    (AtDangerous /\ pc # "dangerous" /\ ~HasForceToken(args)) =>
        /\ Len(out) >= 2
        /\ out[1] = Event("confirm", ConfirmPrompt)
        /\ out[2].ch = "answer"
        /\ ConfirmReturned("false") =>
               /\ Done
               /\ SubSeq(out, 3, Len(out)) = <<Event("error", "Aborted"), Event("exit", "1")>>
        /\ (ConfirmReturned("true") /\ Done) =>
               SubSeq(out, 3, Len(out)) =
                   IF OutcomeOf(args).error # <<>>
                   THEN <<Event("error", OutcomeOf(args).error[1]), Event("exit", "1")>>
                   ELSE <<Event("run", command.run)>>
        /\ (ConfirmReturned("true") /\ ~Done) => Len(out) = 2

(***************************************************************************)
(* C18.  When the remaining tokens of an executable command are parsed     *)
(* (every long flag a declared one): the run aborts with "Missing value    *)
(* for flag" only for a value flag that is written without "=" as the last *)
(* token, and it does so when that flag is the first flag error; a value   *)
(* flag written without "=" before another token takes that token as its   *)
(* value, whatever the token is, so the handler finds it in the mapping.   *)
(***************************************************************************)
\* The last place where the value flag `name` is given.
LastGivenAt(cmd, list, name) ==
    CHOOSE i \in ValueFlagsAt(cmd, list) :
        /\ LongNameOf(list[i]) = name
        /\ \A j \in ValueFlagsAt(cmd, list) : LongNameOf(list[j]) = name => j <= i

C18_NextTokenIsTheValue ==
    (Parsed /\ LongFlagsDeclared(command, args)) =>
        /\ \A i \in ValueFlagsAt(command, args) :
               (Aborted /\ AbortMessage = MissingValueMessage(Str(LongNameOf(args[i]))))
                   => \E j \in ValueFlagsAt(command, args) :
                          /\ LongNameOf(args[j]) = LongNameOf(args[i])
                          /\ ~HasInline(args[j])
                          /\ j = Len(args)
        /\ HandlerInvoked =>
               \A i \in ValueFlagsAt(command, args) :
                   LET name == LongNameOf(args[i])
                       last == LastGivenAt(command, args, name)
                   IN  /\ name \in DOMAIN runFlags
                       /\ runFlags[name] = StringValue(ValueGivenAt(args, last))
        /\ (Aborted /\ ValueLacking(command, args)) => ~IsArityMessage(AbortMessage)

(***************************************************************************)
(* C19.  The positional arguments passed to the handler are exactly the    *)
(* remaining tokens that do not start with "-" and are not taken as the    *)
(* value of a value flag of the schema, in input order and with duplicates *)
(* kept; a token taken as a flag's value is the value recorded for that    *)
(* flag and has no place among the positional arguments.                   *)
(***************************************************************************)
C19_PositionalsAreTheRest ==
    (Done /\ AtExecutable /\ HandlerInvoked) =>
        LET roles == Roles(command, args, 1)
        IN  /\ runArgs = Positionals(command, args)
            /\ Len(runArgs) = Cardinality({i \in DOMAIN args : roles[i] = "positional"})
            /\ \A i \in DOMAIN args :
                   roles[i] = "positional" => (args[i] = <<>> \/ args[i][1] # "-")

(***************************************************************************)
(* C20.  Every resolution step consumes exactly one leading token, so the  *)
(* child-map lookups of a run number at most len(tokens) + 1; and a run    *)
(* that has ended has reached exactly one terminal outcome: one help       *)
(* report, or one abort, or one invocation of a handler.                   *)
(***************************************************************************)
OneHelpReport == Len(out) = 1 /\ out[1].ch = "log"

OneAbort ==
    /\ Cardinality(EventsOf("error")) = 1
    /\ out[Len(out)] = Event("exit", "1")
    /\ EventsOf("log") = {} /\ EventsOf("run") = {}

OneInvocation ==
    /\ Cardinality(EventsOf("run")) = 1
    /\ out[Len(out)].ch = "run"
    /\ EventsOf("log") = {} /\ EventsOf("error") = {}

C20_OneOutcomeWithinBound ==
    LET given == IF HelpAsked THEN WithoutDashed(tokens) ELSE tokens
    IN  /\ lookups <= Len(tokens) + 1
        /\ pc # "run" =>
               /\ lookups \in {Len(path), Len(path) + 1}
               /\ path \o args = given \/ (pc = "done" /\ lookups = Len(path) + 1)
        /\ Done => (OneHelpReport \/ OneAbort \/ OneInvocation)

(***************************************************************************)
(* C21.  On a dangerous command that declares a boolean flag with the      *)
(* short alias f, no single-dash token sets that flag: in the mapping      *)
(* passed to the handler the flag is true only if its long form stands     *)
(* among the tokens as a flag, and (every long flag being a declared one)  *)
(* exactly then, whatever single-dash tokens with an f the tokens hold.    *)
(* A single-dash token with an f in it also keeps confirm() from being     *)
(* invoked.                                                                *)
(***************************************************************************)
\* The places in the schema of the boolean flags whose short alias is f.
AliasedF(cmd) ==
    {i \in BooleanFlagsOf(cmd) :
        "short" \in DOMAIN Schema(cmd)[i][2] /\ Schema(cmd)[i][2].short = "f"}

HasShortF(list) == \E i \in DOMAIN list : IsShortToken(list[i]) /\ HasChar(list[i], "f")

C21_AliasFNeverSetsItsFlag ==
    (AtDangerous /\ AliasedF(command) # {}) =>
        /\ HasShortF(args) => ConfirmCount = 0
        /\ HandlerInvoked =>
               \A i \in AliasedF(command) :
                   LET name == Schema(command)[i][1]
                   IN  /\ name \in DOMAIN runFlags
                       /\ runFlags[name].bool => LongGiven(command, args, name)
                       /\ LongFlagsDeclared(command, args)
                              => (LongGiven(command, args, name) => runFlags[name].bool)

C21_Witness ==
    /\ AtDangerous
    /\ tokens = <<N_danger, T_fo, T_f>>
    /\ out = <<Event("run", "danger")>>
    /\ ~runFlags[F_fast].bool
    /\ runFlags[F_other].bool


====
